---- MODULE Spec2Model ----
(***************************************************************************)
(* Foodgram backend: the relational state (recipes, recipe ingredients,    *)
(* favorites, shopping carts, subscriptions) and the HTTP handlers of      *)
(* backend/api and backend/users that read and write it.                   *)
(*                                                                         *)
(* A table with a UniqueConstraint is kept as a row COUNT per key, so that *)
(* "at most one row per key" is a property of the handlers and of the      *)
(* constraint, never of the representation.                                *)
(***************************************************************************)
EXTENDS Integers, Sequences, FiniteSets, TLC

\* ---------------------------------------------------------------- bounds
NumUsers == 2
MaxRecipes == 2

\* ------------------------------------------------------ program constants
MIN_COOKING_TIME == 1
MIN_INGREDIENT_AMOUNT == 1

\* request.user of a request that carries no token (AnonymousUser)
Anonymous == 0

Users == 1..NumUsers
Requesters == Users \cup {Anonymous}
\* ids that a URL can name: the stored ones and one that is not stored
UserIds == 1..(NumUsers + 1)
RecipeIds == 1..MaxRecipes
RecipePks == 1..(MaxRecipes + 1)

is_authenticated(user) == user \in Users

\* Tag rows (id -> slug) and Ingredient rows (id -> name, measurement_unit);
\* (name, measurement_unit) is unique, the name alone is not.
TagSlug == <<"breakfast", "vegan">>
Tags == DOMAIN TagSlug
IngredientRow ==
    << [name |-> "flour", measurement_unit |-> "g"],
       [name |-> "flour", measurement_unit |-> "kg"],
       [name |-> "sea salt", measurement_unit |-> "g"] >>
Ingredients == DOMAIN IngredientRow

\* The two marker models built on UserRecipeRelation.
Models == {"Favorite", "ShoppingCart"}

VARIABLES
    recipe,             \* Recipe table: id -> row (state, author, tags, cooking_time)
    recipe_ingredient,  \* RecipeIngredient table: <<recipe, ingredient>> -> amounts of its rows
    marks,              \* Favorite / ShoppingCart tables: model -> (<<user, recipe>> -> rows)
    subscription,       \* Subscription table: <<user, author>> -> rows
    request,            \* the request handled last
    response,           \* its response
    proc                \* requests in flight (the step-wise specifications)

vars == <<recipe, recipe_ingredient, marks, subscription, request, response, proc>>
db == <<recipe, recipe_ingredient, marks, subscription>>

\* ------------------------------------------------------------ values
\* a Recipe id is "free" (never inserted), "stored" or "deleted" (ids are not reused)
NoRecipe == [state |-> "free", author |-> Anonymous, tags |-> {}, cooking_time |-> 0]
NoBody == [tags |-> <<>>, ingredients |-> <<>>, cooking_time |-> 0]
\* a query parameter is the set of the values given for it ({} when absent);
\* name is the text given for it, character by character (<<>> when absent)
NoQuery == [author |-> {}, tags |-> {}, is_favorited |-> {}, is_in_shopping_cart |-> {},
            name |-> <<>>]

\* pk is the id in the URL, code the path segment of a short link (its characters)
Request(op, method, user, pk, body, query) ==
    [op |-> op, method |-> method, user |-> user, pk |-> pk, body |-> body, query |-> query,
     code |-> <<>>]

\* status, the exception that produced it ("" when none), the serialized
\* recipes of a list, the ingredient lines and the recipes of a shopping
\* list, the path segments of a returned link or of a redirect target
Response(status, error) ==
    [status |-> status, error |-> error, results |-> <<>>, lines |-> <<>>, recipes |-> <<>>,
     url |-> <<>>]

Idle == [pc |-> "idle", view |-> "", user |-> Anonymous, target |-> 0, status |-> 0,
         error |-> ""]

RangeOf(s) == {s[i] : i \in DOMAIN s}

\* ------------------------------------------------------------ ORM
\* (variant) a lookup that also finds an id no stored row carries
Exists_unchecked(pk) == pk \in RecipeIds

\* Recipe.objects.filter(pk=pk).exists(), get_object_or_404(Recipe, pk=pk)
Exists(pk) == pk \in RecipeIds /\ recipe[pk].state = "stored"

\* (variant) the INSERT with no UniqueConstraint on the table
objects_create_unconstrained(table, key) ==
    [ok |-> TRUE, table |-> [table EXCEPT ![key] = @ + 1]]

\* INSERT of one row under the table's UniqueConstraint (IntegrityError when
\* a row with the key is stored).
objects_create(table, key) ==
    IF table[key] > 0
    THEN [ok |-> FALSE, table |-> table]
    ELSE [ok |-> TRUE, table |-> [table EXCEPT ![key] = @ + 1]]

\* (variant) objects.create in place of get_or_create: no get before the INSERT
get_or_create_blind(table, key) ==
    LET ins == objects_create(table, key)
    IN  [created |-> ins.ok, error |-> IF ins.ok THEN "" ELSE "IntegrityError",
         table |-> ins.table]

\* QuerySet.get_or_create as one statement sequence with nothing in between.
get_or_create(table, key) ==
    IF table[key] = 1 THEN [created |-> FALSE, error |-> "", table |-> table]
    ELSE IF table[key] > 1
    THEN [created |-> FALSE, error |-> "MultipleObjectsReturned", table |-> table]
    ELSE LET ins == objects_create(table, key)
         IN  [created |-> ins.ok, error |-> "", table |-> ins.table]

\* (variant) the delete with its row count ignored
filter_delete_uncounted(table, key) ==
    [deleted |-> 1, table |-> [table EXCEPT ![key] = 0]]

\* (variant) the delete filtered on the second column of the key alone
filter_delete_every_user(table, key) ==
    [deleted |-> table[key],
     table |-> [k \in DOMAIN table |-> IF k[2] = key[2] THEN 0 ELSE table[k]]]

\* QuerySet.filter(key).delete(): the rows deleted and the table left.
filter_delete(table, key) ==
    [deleted |-> table[key], table |-> [table EXCEPT ![key] = 0]]

\* (variant) an existence test that finds nothing
filter_exists_never(table, key) == FALSE

\* QuerySet.filter(key).exists()
filter_exists(table, key) == table[key] > 0

\* ------------------------------------------------ api/views.py: markers
\* RecipeViewSet._add_remove_relation behind permissions.IsAuthenticated.
add_remove_relation(method, user, pk, model) ==
    IF ~is_authenticated(user)
    THEN [response |-> Response(401, "NotAuthenticated"), table |-> marks[model]]
    ELSE IF ~Exists(pk)
    THEN [response |-> Response(404, "Http404"), table |-> marks[model]]
    ELSE IF method = "POST"
    THEN LET goc == get_or_create(marks[model], <<user, pk>>)
         IN  IF goc.error # ""
             THEN [response |-> Response(500, goc.error), table |-> goc.table]
             ELSE IF ~goc.created
             THEN [response |-> Response(400, "ValidationError"), table |-> goc.table]
             ELSE [response |-> Response(201, ""), table |-> goc.table]
    ELSE LET del == filter_delete(marks[model], <<user, pk>>)
         IN  IF del.deleted = 0
             THEN [response |-> Response(400, "ValidationError"), table |-> del.table]
             ELSE [response |-> Response(204, ""), table |-> del.table]

ModelOf(op) == IF op = "favorite" THEN "Favorite" ELSE "ShoppingCart"

\* POST/DELETE /recipes/{pk}/favorite/ and /recipes/{pk}/shopping_cart/
MarkerAction(op, method, user, pk) ==
    LET out == add_remove_relation(method, user, pk, ModelOf(op))
    IN  /\ request' = Request(op, method, user, pk, NoBody, NoQuery)
        /\ response' = out.response
        /\ marks' = [marks EXCEPT ![ModelOf(op)] = out.table]
        /\ UNCHANGED <<recipe, recipe_ingredient, subscription, proc>>

favorite ==
    \E method \in {"POST", "DELETE"}, user \in Requesters, pk \in RecipePks :
        MarkerAction("favorite", method, user, pk)

shopping_cart ==
    \E method \in {"POST", "DELETE"}, user \in Requesters, pk \in RecipePks :
        MarkerAction("shopping_cart", method, user, pk)

\* ------------------------------------------------ api/permissions.py
\* The names bound in the module api/permissions.py when its methods run.
permissions_globals == {"BasePermission", "SAFE_METHODS", "IsAuthorOrReadOnly"}
SAFE_METHODS == {"GET", "HEAD", "OPTIONS"}

\* (variant) a permission that lets every method of every user through
has_object_permission_everyone(method, user, obj) == "allow"

\* IsAuthorOrReadOnly.has_object_permission, the second (effective) class
\* of the module: it reads permissions.SAFE_METHODS before anything else.
has_object_permission(method, user, obj) ==
    IF "permissions" \notin permissions_globals THEN "NameError"
    ELSE IF method \in SAFE_METHODS THEN "allow"
    ELSE IF obj.author = user THEN "allow"
    ELSE "deny"

\* GenericAPIView.get_object of RecipeViewSet: the row, then the object
\* permission; a refusal is 401 without credentials and 403 with them.
get_object(method, user, pk) ==
    IF ~Exists(pk) THEN Response(404, "Http404")
    ELSE LET perm == has_object_permission(method, user, recipe[pk])
         IN  IF perm = "NameError" THEN Response(500, "NameError")
             ELSE IF perm = "deny"
             THEN IF is_authenticated(user)
                  THEN Response(403, "PermissionDenied")
                  ELSE Response(401, "NotAuthenticated")
             ELSE Response(200, "")

\* ------------------------------------------------ api/serializers.py
\* the ids of a list of tags (plain ids) or of ingredients ({id, amount})
ItemIds(items, of_dicts) ==
    [i \in DOMAIN items |-> IF of_dicts THEN items[i].id ELSE items[i]]

\* validate_unique_items: TRUE when the list is accepted.
validate_unique_items(ids) ==
    LET duplicates == {i \in DOMAIN ids : \E j \in 1..(i - 1) : ids[j] = ids[i]}
    IN  Len(ids) > 0 /\ duplicates = {}

\* IngredientInRecipeCreateSerializer: the id is a stored Ingredient and
\* the amount passes MinValueValidator(MIN_INGREDIENT_AMOUNT).
ingredient_item_valid(item) ==
    item.id \in Ingredients /\ item.amount >= MIN_INGREDIENT_AMOUNT

\* RecipeWriteSerializer.is_valid: the field validators and validate_<field>.
is_valid(body) ==
    /\ \A i \in DOMAIN body.ingredients : ingredient_item_valid(body.ingredients[i])
    /\ validate_unique_items(ItemIds(body.ingredients, TRUE))
    /\ Len(body.tags) > 0
    /\ validate_unique_items(ItemIds(body.tags, FALSE))
    /\ body.cooking_time >= MIN_COOKING_TIME

\* RecipeIngredient.objects.filter(recipe=recipe).delete()
delete_ingredients(table, pk) ==
    [k \in DOMAIN table |-> IF k[1] = pk THEN <<>> ELSE table[k]]

\* RecipeIngredient.objects.bulk_create(...): one row per item of the list
bulk_create(table, pk, ingredients_data) ==
    [k \in DOMAIN table |->
        IF k[1] = pk
        THEN table[k] \o [i \in 1..Cardinality({j \in DOMAIN ingredients_data :
                                                  ingredients_data[j].id = k[2]}) |->
                            LET js == {j \in DOMAIN ingredients_data :
                                         ingredients_data[j].id = k[2]}
                                nth == CHOOSE j \in js :
                                         Cardinality({h \in js : h <= j}) = i
                            IN  ingredients_data[nth].amount]
        ELSE table[k]]

\* RecipeWriteSerializer._set_ingredients: delete, then bulk_create
set_ingredients(table, pk, ingredients_data) ==
    bulk_create(delete_ingredients(table, pk), pk, ingredients_data)

\* the id the next INSERT into Recipe gets (0 when the bound is reached)
NextRecipeId ==
    LET fresh == {r \in RecipeIds : \A q \in RecipeIds : q >= r => recipe[q].state = "free"}
    IN  IF fresh = {} THEN 0 ELSE CHOOSE r \in fresh : \A q \in fresh : r <= q

\* recipe.tags.set(tags_data): a tag id with no Tag row breaks the foreign key
tags_set_ok(tags_data) == RangeOf(tags_data) \subseteq Tags

\* POST /recipes/: RecipeViewSet.create -> perform_create -> RecipeWriteSerializer.create
recipe_create(user, body) ==
    /\ NextRecipeId # 0
    /\ request' = Request("recipes", "POST", user, 0, body, NoQuery)
    /\ UNCHANGED <<marks, subscription, proc>>
    /\ IF ~is_valid(body)
       THEN /\ response' = Response(400, "ValidationError")
            /\ UNCHANGED <<recipe, recipe_ingredient>>
       ELSE IF ~is_authenticated(user)
       THEN \* Recipe(author=AnonymousUser) is refused by the model field
            /\ response' = Response(500, "ValueError")
            /\ UNCHANGED <<recipe, recipe_ingredient>>
       ELSE IF ~tags_set_ok(body.tags)
       THEN \* the Recipe row is stored, tags.set raises, nothing follows
            /\ response' = Response(500, "IntegrityError")
            /\ recipe' = [recipe EXCEPT ![NextRecipeId] =
                            [state |-> "stored", author |-> user, tags |-> {},
                             cooking_time |-> body.cooking_time]]
            /\ UNCHANGED recipe_ingredient
       ELSE /\ response' = Response(201, "")
            /\ recipe' = [recipe EXCEPT ![NextRecipeId] =
                            [state |-> "stored", author |-> user,
                             tags |-> RangeOf(body.tags),
                             cooking_time |-> body.cooking_time]]
            /\ recipe_ingredient' =
                   set_ingredients(recipe_ingredient, NextRecipeId, body.ingredients)

\* PUT/PATCH /recipes/{pk}/: RecipeViewSet.update -> get_object ->
\* perform_update -> RecipeWriteSerializer.update
recipe_update(user, pk, body) ==
    LET got == get_object("PATCH", user, pk)
    IN  /\ request' = Request("recipes", "PATCH", user, pk, body, NoQuery)
        /\ UNCHANGED <<marks, subscription, proc>>
        /\ IF got.status # 200
           THEN response' = got /\ UNCHANGED <<recipe, recipe_ingredient>>
           ELSE IF ~is_valid(body)
           THEN /\ response' = Response(400, "ValidationError")
                /\ UNCHANGED <<recipe, recipe_ingredient>>
           ELSE IF ~tags_set_ok(body.tags)
           THEN \* the fields are saved, tags.set raises, nothing follows
                /\ response' = Response(500, "IntegrityError")
                /\ recipe' = [recipe EXCEPT ![pk].author = user,
                                            ![pk].cooking_time = body.cooking_time]
                /\ UNCHANGED recipe_ingredient
           ELSE /\ response' = Response(200, "")
                /\ recipe' = [recipe EXCEPT ![pk].author = user,
                                            ![pk].cooking_time = body.cooking_time,
                                            ![pk].tags = RangeOf(body.tags)]
                /\ recipe_ingredient' =
                       set_ingredients(recipe_ingredient, pk, body.ingredients)

\* DELETE /recipes/{pk}/: get_object, then the row and, by on_delete=CASCADE,
\* every row that references it
recipe_destroy(user, pk) ==
    LET got == get_object("DELETE", user, pk)
    IN  /\ request' = Request("recipes", "DELETE", user, pk, NoBody, NoQuery)
        /\ UNCHANGED <<subscription, proc>>
        /\ IF got.status # 200
           THEN response' = got /\ UNCHANGED <<recipe, recipe_ingredient, marks>>
           ELSE /\ response' = Response(204, "")
                /\ recipe' = [recipe EXCEPT ![pk] = [NoRecipe EXCEPT !.state = "deleted"]]
                /\ recipe_ingredient' = delete_ingredients(recipe_ingredient, pk)
                /\ marks' = [m \in Models |->
                               [k \in DOMAIN marks[m] |->
                                  IF k[2] = pk THEN 0 ELSE marks[m][k]]]

\* request bodies: the ingredient lists and the payloads built from them
Item(id, amount) == [id |-> id, amount |-> amount]
Body(tags, ingredients, cooking_time) ==
    [tags |-> tags, ingredients |-> ingredients, cooking_time |-> cooking_time]

PlainBody == Body(<<1>>, <<Item(1, 2), Item(3, 1)>>, 1)
RichBody == Body(<<1, 2>>, <<Item(1, 1), Item(2, 1)>>, 2)
ValidBodies == {PlainBody, RichBody}

InvalidBodies ==
    { Body(<<1>>, <<>>, 1),
      Body(<<1>>, <<Item(1, 1), Item(1, 2)>>, 1),
      Body(<<1>>, <<Item(1, 0)>>, 1),
      Body(<<1>>, <<Item(4, 1)>>, 1),
      Body(<<>>, <<Item(1, 1)>>, 1),
      Body(<<2, 2>>, <<Item(1, 1)>>, 1),
      Body(<<1>>, <<Item(1, 1)>>, 0),
      Body(<<3>>, <<Item(2, 2)>>, 1) }

Bodies == ValidBodies \cup InvalidBodies

\* ------------------------------------------------ recipes/models.py: names
\* The reverse accessor that UserRecipeRelation gives Recipe for each marker
\* model: related_name="%(class)ss" with the lower-cased class name.
related_name == [m \in Models |-> IF m = "Favorite" THEN "favorites" ELSE "shoppingcarts"]

\* The names a lookup on Recipe can start with: its fields and the reverse
\* relations to it (RecipeIngredient.recipe, Favorite.recipe, ShoppingCart.recipe).
recipe_lookups ==
    {"id", "author", "name", "image", "text", "cooking_time", "tags",
     "ingredients", "created", "recipe_ingredients"}
        \cup {related_name[m] : m \in Models}

\* ------------------------------------------------ querysets
\* A queryset over Recipe is the sequence of ids of its result rows: a join
\* yields a recipe once per matching row of the joined table.
RECURSIVE inner_join(_, _)
inner_join(qs, matches) ==
    IF qs = <<>> THEN <<>>
    ELSE [i \in 1..matches[Head(qs)] |-> Head(qs)] \o inner_join(Tail(qs), matches)

\* QuerySet.distinct()
RECURSIVE distinct(_)
distinct(qs) ==
    IF qs = <<>> THEN <<>>
    ELSE <<Head(qs)>> \o distinct(SelectSeq(Tail(qs), LAMBDA x : x # Head(qs)))

\* Recipe.objects.all() under Meta.ordering = ('-created',): newest first
RECURSIVE newest_first(_)
newest_first(n) ==
    IF n = 0 THEN <<>>
    ELSE (IF Exists(n) THEN <<n>> ELSE <<>>) \o newest_first(n - 1)

Recipe_objects_all == newest_first(MaxRecipes)

\* ------------------------------------------------ api/filters.py
\* AllValuesMultipleFilter(field_name='tags__slug'): the choices are the
\* slugs that stored recipes carry; any other value fails validation.
tags_choices == {TagSlug[t] : t \in UNION {recipe[r].tags : r \in {q \in RecipeIds : Exists(q)}}}

\* the filter itself: OR over the given slugs on the join with tags, distinct
filter_tags(qs, slugs) ==
    IF slugs = {} THEN qs
    ELSE distinct(inner_join(qs,
            [r \in RecipeIds |-> Cardinality({t \in recipe[r].tags : TagSlug[t] \in slugs})]))

\* NumberFilter(field_name='author__id')
filter_author(qs, author) ==
    IF author = {} THEN qs
    ELSE SelectSeq(qs, LAMBDA r : recipe[r].author \in author)

\* (variant) without credentials the filter is skipped whatever the value
filter_user_related_skipped(qs, user, value, lookup, model) ==
    IF value = {} \/ ~is_authenticated(user) THEN [error |-> "", qs |-> qs]
    ELSE IF lookup \notin recipe_lookups
    THEN [error |-> "FieldError", qs |-> <<>>]
    ELSE IF value # {0}
    THEN [error |-> "",
          qs |-> distinct(inner_join(qs, [r \in RecipeIds |-> marks[model][<<user, r>>]]))]
    ELSE [error |-> "",
          qs |-> distinct(SelectSeq(qs, LAMBDA r : marks[model][<<user, r>>] = 0))]

\* RecipeFilter.filter_favorited / filter_shopping_cart: `lookup` is the name
\* the method uses for the reverse relation, `model` the table it means.
\* The result is a queryset, or a FieldError when the name does not resolve.
filter_user_related(qs, user, value, lookup, model) ==
    IF value = {} THEN [error |-> "", qs |-> qs]
    ELSE IF ~is_authenticated(user)
    THEN [error |-> "", qs |-> IF value # {0} THEN <<>> ELSE qs]
    ELSE IF lookup \notin recipe_lookups
    THEN [error |-> "FieldError", qs |-> <<>>]
    ELSE IF value # {0}
    THEN [error |-> "",
          qs |-> distinct(inner_join(qs, [r \in RecipeIds |-> marks[model][<<user, r>>]]))]
    ELSE [error |-> "",
          qs |-> distinct(SelectSeq(qs, LAMBDA r : marks[model][<<user, r>>] = 0))]

filter_favorited(qs, user, value) ==
    filter_user_related(qs, user, value, "favorite_recipe", "Favorite")

filter_shopping_cart(qs, user, value) ==
    filter_user_related(qs, user, value, "shoppingcart_recipe", "ShoppingCart")

\* ------------------------------------------------ api/serializers.py: read
\* (variant) the lookup without user=request.user
check_user_related_any_user(user, obj, model_cls) ==
    IF is_authenticated(user)
    THEN \E u \in Users : marks[model_cls][<<u, obj>>] > 0
    ELSE FALSE

\* RecipeSerializer._check_user_related
check_user_related(user, obj, model_cls) ==
    IF is_authenticated(user) THEN marks[model_cls][<<user, obj>>] > 0 ELSE FALSE

\* RecipeSerializer: the fields of the representation that the state decides
RecipeSerializer(user, obj) ==
    [id |-> obj,
     is_favorited |-> check_user_related(user, obj, "Favorite"),
     is_in_shopping_cart |-> check_user_related(user, obj, "ShoppingCart")]

\* ------------------------------------------------ api/views.py: reads
\* RecipeViewSet.filter_queryset: the RecipeFilter (fields in the order of
\* Meta.fields), then distinct()
filter_queryset(user, query) ==
    IF ~(query.tags \subseteq tags_choices)
    THEN [status |-> 400, error |-> "ValidationError", qs |-> <<>>]
    ELSE LET q1 == filter_tags(filter_author(Recipe_objects_all, query.author), query.tags)
             q2 == filter_favorited(q1, user, query.is_favorited)
             q3 == filter_shopping_cart(q2.qs, user, query.is_in_shopping_cart)
         IN  IF q2.error # "" THEN [status |-> 500, error |-> q2.error, qs |-> <<>>]
             ELSE IF q3.error # "" THEN [status |-> 500, error |-> q3.error, qs |-> <<>>]
             ELSE [status |-> 200, error |-> "", qs |-> distinct(q3.qs)]

\* (variant) a list that stores what it serves as favorites of the requester
recipe_list_recording(user, query) ==
    LET f == filter_queryset(user, query)
    IN  /\ request' = Request("recipes", "GET", user, 0, NoBody, query)
        /\ response' = [Response(f.status, f.error) EXCEPT
                          !.results = [i \in DOMAIN f.qs |-> RecipeSerializer(user, f.qs[i])]]
        /\ marks' = [marks EXCEPT !["Favorite"] =
                        [k \in DOMAIN @ |->
                            IF k[1] = user /\ k[2] \in RangeOf(f.qs) THEN 1 ELSE @[k]]]
        /\ UNCHANGED <<recipe, recipe_ingredient, subscription, proc>>

\* GET /recipes/: the filtered queryset, serialized for the requester (the
\* results of these bounds fit the first page of StandardPagination)
recipe_list(user, query) ==
    LET f == filter_queryset(user, query)
    IN  /\ request' = Request("recipes", "GET", user, 0, NoBody, query)
        /\ response' = [Response(f.status, f.error) EXCEPT
                          !.results = [i \in DOMAIN f.qs |-> RecipeSerializer(user, f.qs[i])]]
        /\ UNCHANGED <<db, proc>>

\* the join of download_shopping_cart: RecipeIngredient row n of (recipe,
\* ingredient), once per ShoppingCart row c of (user, recipe)
cart_rows(user) ==
    UNION {{[recipe |-> k[1], ingredient |-> k[2], n |-> n, c |-> c] :
               n \in 1..Len(recipe_ingredient[k]),
               c \in 1..marks["ShoppingCart"][<<user, k[1]>>]} :
           k \in RecipeIds \X Ingredients}

RECURSIVE SumAmounts(_)
SumAmounts(rows) ==
    IF rows = {} THEN 0
    ELSE LET row == CHOOSE x \in rows : TRUE
         IN  recipe_ingredient[<<row.recipe, row.ingredient>>][row.n]
               + SumAmounts(rows \ {row})

\* .values(name, measurement_unit).annotate(total_amount=Sum('amount')): one
\* group per (name, measurement_unit) among the rows
shopping_groups(user) ==
    {[name |-> IngredientRow[i].name,
      measurement_unit |-> IngredientRow[i].measurement_unit,
      total_amount |-> SumAmounts({row \in cart_rows(user) :
            /\ IngredientRow[row.ingredient].name = IngredientRow[i].name
            /\ IngredientRow[row.ingredient].measurement_unit
                 = IngredientRow[i].measurement_unit})] :
        i \in {row.ingredient : row \in cart_rows(user)}}

\* the ingredient names of the fixture in alphabetical order
Alphabetical == <<"flour", "sea salt">>
NameRank(name) == CHOOSE i \in DOMAIN Alphabetical : Alphabetical[i] = name

\* .order_by('ingredient__name'): every order of the groups that ascends by
\* name (the order of groups of one name is the database's)
ordered_by_name(groups) ==
    {s \in [1..Cardinality(groups) -> groups] :
        /\ \A i, j \in DOMAIN s : i # j => s[i] # s[j]
        /\ \A i, j \in DOMAIN s : i < j => NameRank(s[i].name) <= NameRank(s[j].name)}

\* GET /recipes/download_shopping_cart/ behind permissions.IsAuthenticated;
\* both querysets name the reverse relation "shoppingcart_set"
download_shopping_cart(user) ==
    /\ request' = Request("download_shopping_cart", "GET", user, 0, NoBody, NoQuery)
    /\ UNCHANGED <<db, proc>>
    /\ IF ~is_authenticated(user)
       THEN response' = Response(401, "NotAuthenticated")
       ELSE IF "shoppingcart_set" \notin recipe_lookups
       THEN response' = Response(500, "FieldError")
       ELSE \E lines \in ordered_by_name(shopping_groups(user)) :
              response' = [Response(200, "") EXCEPT
                             !.lines = lines,
                             !.recipes = inner_join(Recipe_objects_all,
                                  [r \in RecipeIds |-> marks["ShoppingCart"][<<user, r>>]])]

\* ------------------------------------------------ ingredient search
\* the ingredient names of the fixture, character by character
Spelling ==
    ("flour" :> <<"f", "l", "o", "u", "r">>)
        @@ ("sea salt" :> <<"s", "e", "a", " ", "s", "a", "l", "t">>)

\* the letters of these names and their capitals
UpperCase ==
    ("f" :> "F") @@ ("l" :> "L") @@ ("o" :> "O") @@ ("u" :> "U") @@ ("r" :> "R")
        @@ ("s" :> "S") @@ ("e" :> "E") @@ ("a" :> "A") @@ ("t" :> "T")
upper(c) == IF c \in DOMAIN UpperCase THEN UpperCase[c] ELSE c
lower(c) ==
    IF \E x \in DOMAIN UpperCase : UpperCase[x] = c
    THEN CHOOSE x \in DOMAIN UpperCase : UpperCase[x] = c
    ELSE c

\* the query parameter that SearchFilter reads (REST_FRAMEWORK settings)
SEARCH_PARAM == "name"

\* SearchFilter.get_search_terms: a comma counts as a space and the value is
\* split on whitespace
RECURSIVE split_terms(_, _)
split_terms(chars, term) ==
    LET closed == IF term = <<>> THEN <<>> ELSE <<term>>
    IN  IF chars = <<>> THEN closed
        ELSE IF Head(chars) \in {" ", ","} THEN closed \o split_terms(Tail(chars), <<>>)
        ELSE split_terms(Tail(chars), Append(term, Head(chars)))

get_search_terms(query) == split_terms(query[SEARCH_PARAM], <<>>)

\* the lookup of search_fields = ['^name']: name__istartswith (the viewset
\* names no filterset, so IngredientFilter of api/filters.py takes no part)
name_istartswith(name, term) ==
    /\ Len(term) <= Len(name)
    /\ \A i \in DOMAIN term : lower(name[i]) = lower(term[i])

\* SearchFilter.filter_queryset: every term must match
search_filter(query) ==
    LET terms == get_search_terms(query)
    IN  {i \in Ingredients :
            \A t \in DOMAIN terms :
                name_istartswith(Spelling[IngredientRow[i].name], terms[t])}

\* Ingredient.Meta.ordering = ['name']: every order of the rows that ascends
\* by name (the order of rows of one name is the database's)
ordered_ingredients(ids) ==
    {s \in [1..Cardinality(ids) -> ids] :
        /\ \A i, j \in DOMAIN s : i # j => s[i] # s[j]
        /\ \A i, j \in DOMAIN s :
              i < j => NameRank(IngredientRow[s[i]].name) <= NameRank(IngredientRow[s[j]].name)}

IngredientSerializer(i) ==
    [id |-> i, name |-> IngredientRow[i].name,
     measurement_unit |-> IngredientRow[i].measurement_unit]

\* GET /ingredients/?name=...: IngredientViewSet.list
ingredient_list(user, name) ==
    LET query == [NoQuery EXCEPT !.name = name]
    IN  /\ request' = Request("ingredients", "GET", user, 0, NoBody, query)
        /\ UNCHANGED <<db, proc>>
        /\ \E s \in ordered_ingredients(search_filter(query)) :
              response' = [Response(200, "") EXCEPT
                             !.results = [i \in DOMAIN s |-> IngredientSerializer(s[i])]]

\* ------------------------------------------------ short links
\* foodgram/urls.py: the one route named recipe-short-link that the root
\* URLconf holds, path('s/<int:pk>/', short_link_redirect)
short_link_route == [prefix |-> "s", converter |-> "int", kwarg |-> "pk",
                     name |-> "recipe-short-link"]

\* django.urls.reverse(viewname, kwargs={kwarg: value})
reverse(viewname, kwarg, value) ==
    IF viewname = short_link_route.name /\ kwarg = short_link_route.kwarg
    THEN [error |-> "", url |-> <<short_link_route.prefix, value>>]
    ELSE [error |-> "NoReverseMatch", url |-> <<>>]

\* GET /recipes/{pk}/get-link/ (AllowAny)
get_link(user, pk) ==
    /\ request' = Request("get_link", "GET", user, pk, NoBody, NoQuery)
    /\ UNCHANGED <<db, proc>>
    /\ IF ~Exists(pk) THEN response' = Response(404, "NotFound")
       ELSE LET link == reverse("recipe-short-link", "pk", pk)
            IN  IF link.error # "" THEN response' = Response(500, link.error)
                ELSE response' = [Response(200, "") EXCEPT !.url = link.url]

recipes_get_link == \E user \in Requesters, pk \in RecipePks : get_link(user, pk)

\* short_url: the alphabet of a code, and a code's value in its base
short_url_alphabet ==
    << "m", "n", "6", "j", "2", "c", "4", "r", "v", "8", "b", "p", "y", "g", "w", "9",
       "5", "z", "7", "h", "s", "d", "a", "e", "t", "x", "u", "k", "3", "f", "q" >>
alphabet_index(c) == (CHOOSE i \in DOMAIN short_url_alphabet : short_url_alphabet[i] = c) - 1

RECURSIVE debase(_)
debase(x) ==
    IF x = <<>> THEN 0
    ELSE debase(SubSeq(x, 1, Len(x) - 1)) * Len(short_url_alphabet)
           + alphabet_index(x[Len(x)])

\* the low `width` bits of n in reverse order
RECURSIVE reverse_bits(_, _)
reverse_bits(n, width) ==
    IF width = 0 THEN 0
    ELSE (n % 2) * 2^(width - 1) + reverse_bits(n \div 2, width - 1)

\* short_url.decode_url: the bits of the 24-bit block reversed, the bits
\* above it kept; ValueError for a character outside the alphabet
decode_url(short_code) ==
    IF \E i \in DOMAIN short_code : short_code[i] \notin RangeOf(short_url_alphabet)
    THEN [error |-> "ValueError", value |-> 0]
    ELSE LET n == debase(short_code)
         IN  [error |-> "", value |-> (n \div 2^24) * 2^24 + reverse_bits(n % 2^24, 24)]

redirect(url) == [Response(302, "") EXCEPT !.url = url]

\* recipes/views.py short_link_redirect(request, short_code): its body
short_link_redirect(short_code) ==
    LET recipe_id == decode_url(short_code)
    IN  IF recipe_id.error # "" THEN redirect(<<"not_found">>)
        ELSE IF ~Exists(recipe_id.value) THEN redirect(<<"not_found">>)
        ELSE redirect(<<"recipes", recipe_id.value>>)

\* the parameters short_link_redirect can be called with
short_link_redirect_params == {"request", "short_code"}

\* the int path converter matches [0-9]+
Digits == {"0", "1", "2", "3", "4", "5", "6", "7", "8", "9"}
int_converter_matches(segment) == segment # <<>> /\ RangeOf(segment) \subseteq Digits

\* the int path converter writes a value into a URL in decimal
DecimalDigits == <<"0", "1", "2", "3", "4", "5", "6", "7", "8", "9">>
RECURSIVE to_url(_)
to_url(value) ==
    IF value < 10 THEN <<DecimalDigits[value + 1]>>
    ELSE to_url(value \div 10) \o <<DecimalDigits[(value % 10) + 1]>>

\* GET /s/{code}/: the URL resolver, then the call
\* short_link_redirect(request, **{kwarg: value})
short_link(user, code) ==
    /\ request' = [Request("short_link", "GET", user, 0, NoBody, NoQuery) EXCEPT !.code = code]
    /\ UNCHANGED <<db, proc>>
    /\ response' =
          IF short_link_route.converter = "int" /\ ~int_converter_matches(code)
          THEN Response(404, "Resolver404")
          ELSE IF short_link_route.kwarg \notin short_link_redirect_params
          THEN Response(500, "TypeError")
          ELSE short_link_redirect(code)

\* ------------------------------------------------ subscriptions
\* A Python value with its type: `==` between a str and an int is False.
py_str(n) == [type |-> "str", value |-> n]
py_int(n) == [type |-> "int", value |-> n]
py_eq(a, b) == a.type = b.type /\ a.value = b.value

\* users/views.py UserViewSet.subscribe(request, pk)
users_subscribe(method, user, pk) ==
    LET key == <<user, pk>>
    IN  IF ~is_authenticated(user)
        THEN [response |-> Response(401, "NotAuthenticated"), table |-> subscription]
        ELSE IF pk \notin Users
        THEN [response |-> Response(404, "Http404"), table |-> subscription]
        ELSE IF method = "POST"
        THEN IF pk = user
             THEN [response |-> Response(400, ""), table |-> subscription]
             ELSE IF filter_exists(subscription, key)
             THEN [response |-> Response(400, ""), table |-> subscription]
             ELSE LET ins == objects_create(subscription, key)
                  IN  IF ins.ok
                      THEN [response |-> Response(201, ""), table |-> ins.table]
                      ELSE [response |-> Response(500, "IntegrityError"), table |-> ins.table]
        ELSE IF ~filter_exists(subscription, key)
             THEN [response |-> Response(400, ""), table |-> subscription]
             ELSE [response |-> Response(204, ""),
                   table |-> filter_delete(subscription, key).table]

\* api/views.py UserViewSet.subscribe(request, id): id is the URL's string,
\* user.pk an int; author_id=id is stored without looking the author up.
api_subscribe(method, user, id) ==
    LET key == <<user, id>>
    IN  IF ~is_authenticated(user)
        THEN [response |-> Response(401, "NotAuthenticated"), table |-> subscription]
        ELSE IF method = "POST"
        THEN IF py_eq(py_str(id), py_int(user))
             THEN [response |-> Response(400, "ValidationError"), table |-> subscription]
             ELSE IF id \notin Users
             THEN \* no row to get, and the INSERT breaks the foreign key
                  [response |-> Response(500, "IntegrityError"), table |-> subscription]
             ELSE LET goc == get_or_create(subscription, key)
                  IN  IF goc.error # ""
                      THEN [response |-> Response(500, goc.error), table |-> goc.table]
                      ELSE IF ~goc.created
                      THEN [response |-> Response(400, "ValidationError"), table |-> goc.table]
                      ELSE [response |-> Response(201, ""), table |-> goc.table]
        ELSE IF id \notin Users \/ subscription[key] = 0
             THEN [response |-> Response(400, "ValidationError"), table |-> subscription]
             ELSE [response |-> Response(204, ""),
                   table |-> filter_delete(subscription, key).table]

\* POST/DELETE /users/{id}/subscribe/ of either viewset
subscribe(view, method, user, id) ==
    LET out == IF view = "users" THEN users_subscribe(method, user, id)
               ELSE api_subscribe(method, user, id)
    IN  /\ request' = Request(view, method, user, id, NoBody, NoQuery)
        /\ response' = out.response
        /\ subscription' = out.table
        /\ UNCHANGED <<recipe, recipe_ingredient, marks, proc>>

\* ------------------------------------------------------------ Init
EmptyDb ==
    /\ recipe = [r \in RecipeIds |-> NoRecipe]
    /\ recipe_ingredient = [k \in RecipeIds \X Ingredients |-> <<>>]
    /\ marks = [m \in Models |-> [k \in Users \X RecipeIds |-> 0]]
    /\ subscription = [k \in Users \X Users |-> 0]

Quiet ==
    /\ request = Request("", "", Anonymous, 0, NoBody, NoQuery)
    /\ response = Response(0, "")
    /\ proc = <<>>

Init == EmptyDb /\ Quiet

\* ---- the write API on recipes and their markers
recipes_create(bodies) ==
    \E user \in Requesters, body \in bodies : recipe_create(user, body)

Next == favorite \/ shopping_cart \/ recipes_create({PlainBody}) \/ recipes_get_link

Spec == Init /\ [][Next]_vars

\* ---- recipe create, update and delete with every body
recipes_update == \E user \in Requesters, pk \in RecipePks, body \in Bodies :
                      recipe_update(user, pk, body)
recipes_destroy == \E user \in Requesters, pk \in RecipePks : recipe_destroy(user, pk)

NextRecipe == recipes_create(Bodies) \/ recipes_update \/ recipes_destroy

SpecRecipe == Init /\ [][NextRecipe]_vars

\* ---- the subscription toggles
users_subscribe_action ==
    \E method \in {"POST", "DELETE"}, user \in Requesters, id \in UserIds :
        subscribe("users", method, user, id)
api_subscribe_action ==
    \E method \in {"POST", "DELETE"}, user \in Requesters, id \in UserIds :
        subscribe("api", method, user, id)

NextSub == users_subscribe_action \/ api_subscribe_action

SpecSub == Init /\ [][NextSub]_vars

\* ---- the reads, on databases that creates and marker POSTs build
Stored(author, body) ==
    [state |-> "stored", author |-> author, tags |-> RangeOf(body.tags),
     cooking_time |-> body.cooking_time]

Fixture(author, body) == [author |-> author, body |-> body]
Fixtures ==
    { <<>>,
      <<Fixture(1, PlainBody)>>,
      <<Fixture(1, PlainBody), Fixture(NumUsers, RichBody)>>,
      <<Fixture(NumUsers, RichBody), Fixture(1, PlainBody)>> }

RECURSIVE FixtureIngredients(_, _)
FixtureIngredients(f, n) ==
    IF n = 0 THEN [k \in RecipeIds \X Ingredients |-> <<>>]
    ELSE set_ingredients(FixtureIngredients(f, n - 1), n, f[n].body.ingredients)

InitRead ==
    /\ \E f \in Fixtures :
          /\ recipe = [r \in RecipeIds |->
                          IF r \in DOMAIN f THEN Stored(f[r].author, f[r].body) ELSE NoRecipe]
          /\ recipe_ingredient = FixtureIngredients(f, Len(f))
    /\ marks \in [Models -> [Users \X RecipeIds -> {0, 1}]]
    /\ \A m \in Models, k \in Users \X RecipeIds : marks[m][k] = 1 => Exists(k[2])
    /\ subscription = [k \in Users \X Users |-> 0]
    /\ Quiet

Query(author, tags, is_favorited, is_in_shopping_cart) ==
    [author |-> author, tags |-> tags, is_favorited |-> is_favorited,
     is_in_shopping_cart |-> is_in_shopping_cart, name |-> <<>>]

Queries ==
    {Query({}, tags, {}, {}) : tags \in SUBSET RangeOf(TagSlug)}
      \cup {Query({1}, {}, {}, {})}
      \cup {Query({}, tags, {v}, {}) : tags \in {{}, {"breakfast"}}, v \in {0, 1}}
      \cup {Query({}, {}, {}, {v}) : v \in {0, 1}}
      \cup {Query({1}, {"breakfast"}, {v}, {v}) : v \in {0, 1}}

recipes_list == \E user \in Requesters, query \in Queries : recipe_list(user, query)
recipes_download_shopping_cart == \E user \in Requesters : download_shopping_cart(user)

NextRead == recipes_list \/ recipes_download_shopping_cart

SpecRead == InitRead /\ [][NextRead]_vars

\* ---- the ingredient search: every prefix of a stored name, the same in
\* capitals, and the short texts over a few letters
Prefixes(chars) == {SubSeq(chars, 1, n) : n \in 1..Len(chars)}
Capitals(chars) == [i \in DOMAIN chars |-> upper(chars[i])]
SearchLetters == {"f", "s", "l", "x"}
SearchValues ==
    LET prefixes == UNION {Prefixes(Spelling[IngredientRow[i].name]) : i \in Ingredients}
    IN  prefixes \cup {Capitals(p) : p \in prefixes}
          \cup {<<>>} \cup {<<a>> : a \in SearchLetters}
          \cup {<<a, b>> : a \in SearchLetters, b \in SearchLetters}

ingredients_list == \E user \in Requesters, name \in SearchValues : ingredient_list(user, name)

NextSearch == ingredients_list

SpecSearch == Init /\ [][NextSearch]_vars

\* ---- short links: the codes short_url gives the ids 1, 2 and 3, two
\* numeric segments and a letter outside the alphabet
ShortCodes ==
    { <<"8", "6", "7", "n", "v">>, <<"2", "5", "t", "5", "2">>,
      <<"g", "h", "p", "z", "y">>, <<"1">>, <<"2">>, <<"o">> }

short_links == \E user \in Requesters, code \in ShortCodes : short_link(user, code)

NextLink == recipes_create({PlainBody}) \/ recipes_get_link \/ short_links

SpecLink == Init /\ [][NextLink]_vars

\* ---- two POST requests in flight, each a check and then an INSERT
Procs == {1, 2}
Views == {"favorite", "shopping_cart", "users", "api"}
IsMarker(view) == view \in {"favorite", "shopping_cart"}
Targets(view) == IF IsMarker(view) THEN RecipePks ELSE UserIds

\* the table a view writes, and the rows it holds for a key
TableOf(view) == IF IsMarker(view) THEN marks[ModelOf(view)] ELSE subscription
Stored_target(view, target) == IF IsMarker(view) THEN Exists(target) ELSE target \in Users

Done(p, view, user, target, status, error) ==
    proc' = [proc EXCEPT ![p] = [pc |-> "done", view |-> view, user |-> user,
                                 target |-> target, status |-> status, error |-> error]]

\* the handler up to its existence check: get_object_or_404 and the get of
\* get_or_create (favorite, shopping_cart, api subscribe), or the self and
\* exists() checks (users subscribe)
post_check(p) ==
    /\ proc[p].pc = "idle"
    /\ UNCHANGED <<db, request, response>>
    /\ \E view \in Views, user \in Users :
         \E target \in Targets(view) :
            IF view # "api" /\ ~Stored_target(view, target)
            THEN Done(p, view, user, target, 404, "Http404")
            ELSE IF view = "users" /\ target = user
            THEN Done(p, view, user, target, 400, "")
            ELSE IF view = "api" /\ py_eq(py_str(target), py_int(user))
            THEN Done(p, view, user, target, 400, "ValidationError")
            ELSE IF Stored_target(view, target) /\ TableOf(view)[<<user, target>>] > 0
            THEN Done(p, view, user, target, 400, "ValidationError")
            ELSE proc' = [proc EXCEPT ![p] = [pc |-> "insert", view |-> view, user |-> user,
                                              target |-> target, status |-> 0, error |-> ""]]

\* the INSERT: create() of get_or_create, which turns the IntegrityError of
\* a lost race into created=False, or Subscription.objects.create, which
\* lets it through
post_insert(p) ==
    /\ proc[p].pc = "insert"
    /\ UNCHANGED <<recipe, recipe_ingredient, request, response>>
    /\ LET view == proc[p].view
           user == proc[p].user
           target == proc[p].target
           ins == objects_create(TableOf(view), <<user, target>>)
       IN  IF ~Stored_target(view, target)
           THEN /\ Done(p, view, user, target, 500, "IntegrityError")
                /\ UNCHANGED <<marks, subscription>>
           ELSE /\ IF IsMarker(view)
                   THEN /\ marks' = [marks EXCEPT ![ModelOf(view)] = ins.table]
                        /\ UNCHANGED subscription
                   ELSE /\ subscription' = ins.table
                        /\ UNCHANGED marks
                /\ IF ins.ok THEN Done(p, view, user, target, 201, "")
                   ELSE IF view = "users"
                   THEN Done(p, view, user, target, 500, "IntegrityError")
                   ELSE Done(p, view, user, target, 400, "IntegrityError")

InitRace ==
    /\ recipe = [r \in RecipeIds |-> IF r = 1 THEN Stored(1, PlainBody) ELSE NoRecipe]
    /\ recipe_ingredient =
           set_ingredients([k \in RecipeIds \X Ingredients |-> <<>>], 1, PlainBody.ingredients)
    /\ marks = [m \in Models |-> [k \in Users \X RecipeIds |-> 0]]
    /\ subscription = [k \in Users \X Users |-> 0]
    /\ request = Request("", "", Anonymous, 0, NoBody, NoQuery)
    /\ response = Response(0, "")
    /\ proc = [p \in Procs |-> Idle]

NextRace == \E p \in Procs : post_check(p) \/ post_insert(p)

SpecRace == InitRace /\ [][NextRace]_vars

\* ---- the three toggles together, on a database that holds one recipe
InitToggle ==
    /\ recipe = [r \in RecipeIds |-> IF r = 1 THEN Stored(1, PlainBody) ELSE NoRecipe]
    /\ recipe_ingredient =
           set_ingredients([k \in RecipeIds \X Ingredients |-> <<>>], 1, PlainBody.ingredients)
    /\ marks = [m \in Models |-> [k \in Users \X RecipeIds |-> 0]]
    /\ subscription = [k \in Users \X Users |-> 0]
    /\ Quiet

NextToggle == favorite \/ shopping_cart \/ users_subscribe_action \/ api_subscribe_action

SpecToggle == InitToggle /\ [][NextToggle]_vars

\* ---- the toggles with the deletion of the recipe and the shopping list
NextCascade == NextToggle \/ recipes_destroy \/ recipes_download_shopping_cart

SpecCascade == InitToggle /\ [][NextCascade]_vars

\* ---- recipe writes in flight: a handler is its queries one after the
\* other (no transaction.atomic around them), and the worker may die
\* between two of them
NoJob == [pc |-> "idle", method |-> "", user |-> Anonymous, pk |-> 0, body |-> NoBody,
          before |-> {}, status |-> 0, error |-> ""]

\* the RecipeIngredient rows of a recipe and the rows a list asks for,
\* as <<ingredient, amounts>> pairs
rows_of(table, pk) ==
    {<<i, table[<<pk, i>>]>> : i \in {j \in Ingredients : table[<<pk, j>>] # <<>>}}
rows_asked(ingredients_data) ==
    {<<ingredients_data[j].id, <<ingredients_data[j].amount>>>> : j \in DOMAIN ingredients_data}

\* UniqueConstraint unique_recipe_ingredient on an INSERT of the rows of a
\* list: no row of the list meets a stored row or another row of the list
unique_recipe_ingredient(table, pk, ingredients_data) ==
    /\ \A j \in DOMAIN ingredients_data : table[<<pk, ingredients_data[j].id>>] = <<>>
    /\ \A j, h \in DOMAIN ingredients_data :
          ingredients_data[j].id = ingredients_data[h].id => j = h

Answer(p, status, error) ==
    proc' = [proc EXCEPT ![p].pc = "done", ![p].status = status, ![p].error = error]
Goto(p, pc) == proc' = [proc EXCEPT ![p].pc = pc]

\* creates accepted and not yet given an id
PendingCreates == {p \in Procs : proc[p].method = "POST" /\ proc[p].pc \in {"received", "save"}}

\* a POST /recipes/ or a PATCH /recipes/{pk}/ reaches its view
write_receive(p) ==
    /\ proc[p].pc = "idle"
    /\ UNCHANGED <<db, request, response>>
    /\ \E method \in {"POST", "PATCH"}, user \in Users, body \in ValidBodies :
         \E pk \in (IF method = "POST" THEN {0} ELSE RecipeIds) :
            /\ method = "POST" =>
                  Cardinality({r \in RecipeIds : recipe[r].state = "free"})
                      > Cardinality(PendingCreates)
            /\ proc' = [proc EXCEPT ![p] =
                          [pc |-> "received", method |-> method, user |-> user, pk |-> pk,
                           body |-> body,
                           before |-> IF pk = 0 THEN {} ELSE rows_of(recipe_ingredient, pk),
                           status |-> 0, error |-> ""]]

\* get_object (update only), serializer.is_valid and, on create, the
\* Recipe(author=...) that Recipe.objects.create builds: no write yet
write_validate(p) ==
    /\ proc[p].pc = "received"
    /\ UNCHANGED <<db, request, response>>
    /\ LET job == proc[p]
           got == get_object("PATCH", job.user, job.pk)
       IN  IF job.method = "PATCH" /\ got.status # 200
           THEN Answer(p, got.status, got.error)
           ELSE IF ~is_valid(job.body)
           THEN Answer(p, 400, "ValidationError")
           ELSE IF job.method = "POST" /\ ~is_authenticated(job.user)
           THEN Answer(p, 500, "ValueError")
           ELSE Goto(p, "save")

\* Recipe.objects.create: the INSERT; super().update: the UPDATE of the
\* fields of validated_data, author among them
write_save(p) ==
    /\ proc[p].pc = "save"
    /\ UNCHANGED <<recipe_ingredient, marks, subscription, request, response>>
    /\ LET job == proc[p]
       IN  IF job.method = "POST"
           THEN /\ NextRecipeId # 0
                /\ recipe' = [recipe EXCEPT ![NextRecipeId] =
                                [state |-> "stored", author |-> job.user, tags |-> {},
                                 cooking_time |-> job.body.cooking_time]]
                /\ proc' = [proc EXCEPT ![p].pc = "tags", ![p].pk = NextRecipeId]
           ELSE /\ recipe' = [recipe EXCEPT ![job.pk].author = job.user,
                                            ![job.pk].cooking_time = job.body.cooking_time]
                /\ Goto(p, "tags")

\* recipe.tags.set(tags_data)
write_tags_set(p) ==
    /\ proc[p].pc = "tags"
    /\ UNCHANGED <<recipe_ingredient, marks, subscription, request, response>>
    /\ LET job == proc[p]
       IN  IF ~tags_set_ok(job.body.tags)
           THEN Answer(p, 500, "IntegrityError") /\ UNCHANGED recipe
           ELSE /\ recipe' = [recipe EXCEPT ![job.pk].tags = RangeOf(job.body.tags)]
                /\ Goto(p, "delete")

\* _set_ingredients, first statement: the DELETE of the recipe's rows
write_delete(p) ==
    /\ proc[p].pc = "delete"
    /\ UNCHANGED <<recipe, marks, subscription, request, response>>
    /\ recipe_ingredient' = delete_ingredients(recipe_ingredient, proc[p].pk)
    /\ Goto(p, "insert")

\* _set_ingredients, second statement: the INSERT of bulk_create, all of
\* its rows or, when the unique constraint refuses one, none
write_bulk_create(p) ==
    /\ proc[p].pc = "insert"
    /\ UNCHANGED <<recipe, marks, subscription, request, response>>
    /\ LET job == proc[p]
       IN  IF ~unique_recipe_ingredient(recipe_ingredient, job.pk, job.body.ingredients)
           THEN Answer(p, 500, "IntegrityError") /\ UNCHANGED recipe_ingredient
           ELSE /\ recipe_ingredient' =
                      bulk_create(recipe_ingredient, job.pk, job.body.ingredients)
                /\ Answer(p, IF job.method = "POST" THEN 201 ELSE 200, "")

\* the worker dies with the request in flight: what it wrote stays
worker_crash(p) ==
    /\ proc[p].pc \in {"received", "save", "tags", "delete", "insert"}
    /\ UNCHANGED <<db, request, response>>
    /\ Goto(p, "crashed")

InitWrite ==
    /\ recipe = [r \in RecipeIds |-> IF r = 1 THEN Stored(1, PlainBody) ELSE NoRecipe]
    /\ recipe_ingredient =
           set_ingredients([k \in RecipeIds \X Ingredients |-> <<>>], 1, PlainBody.ingredients)
    /\ marks = [m \in Models |-> [k \in Users \X RecipeIds |-> 0]]
    /\ subscription = [k \in Users \X Users |-> 0]
    /\ request = Request("", "", Anonymous, 0, NoBody, NoQuery)
    /\ response = Response(0, "")
    /\ proc = [p \in Procs |-> NoJob]

\* the steps a live worker takes
write_step(p) ==
    \/ write_validate(p)
    \/ write_save(p)
    \/ write_tags_set(p)
    \/ write_delete(p)
    \/ write_bulk_create(p)

NextWrite == \E p \in Procs : write_receive(p) \/ write_step(p) \/ worker_crash(p)

\* a worker that does not die runs its handler to the response
SpecWrite == InitWrite /\ [][NextWrite]_vars /\ \A p \in Procs : WF_vars(write_step(p))

\* ================================================================ claims
IsMarkerRequest(req) == req.op \in {"favorite", "shopping_cart"}
IsListRequest(req) == req.op = "recipes" /\ req.method = "GET"
IsDownload(req) == req.op = "download_shopping_cart"
RowCount(model, user, pk) == IF pk \in RecipeIds THEN marks[model][<<user, pk>>] ELSE 0
ResultIds(resp) == [i \in DOMAIN resp.results |-> resp.results[i].id]

\* C1: in every recipe of a list response, is_favorited (is_in_shopping_cart)
\* is true exactly when the requester is authenticated and a Favorite
\* (ShoppingCart) row (requester, recipe) is stored; for an anonymous
\* requester both are false.
C1_FlagsMatchRows ==
    (IsListRequest(request) /\ response.status = 200) =>
        \A i \in DOMAIN response.results :
            LET s == response.results[i]
            IN  /\ s.is_favorited <=>
                     (request.user \in Users /\ marks["Favorite"][<<request.user, s.id>>] > 0)
                /\ s.is_in_shopping_cart <=>
                     (request.user \in Users
                        /\ marks["ShoppingCart"][<<request.user, s.id>>] > 0)

\* C1 witness: a list for an authenticated user shows a recipe as favorited
\* and not in the cart while another user holds it in the cart
C1_Witness ==
    /\ IsListRequest(request) /\ response.status = 200 /\ request.user \in Users
    /\ \E i \in DOMAIN response.results :
          /\ response.results[i].is_favorited
          /\ ~response.results[i].is_in_shopping_cart
          /\ \E u \in Users \ {request.user} :
                marks["ShoppingCart"][<<u, response.results[i].id>>] > 0

\* C2: a POST to favorite or shopping_cart for a (user, recipe) whose row is
\* stored is answered 400 and leaves the tables as they were, and no state
\* holds two Favorite rows or two ShoppingCart rows of one (user, recipe).
C2_DuplicatePostRejected ==
    /\ [][(/\ IsMarkerRequest(request') /\ request'.method = "POST"
           /\ is_authenticated(request'.user)
           /\ RowCount(ModelOf(request'.op), request'.user, request'.pk) > 0)
          => (response'.status = 400 /\ db' = db)]_vars
    /\ [](\A m \in Models : \A k \in Users \X RecipeIds : marks[m][k] <= 1)

\* C2 witness: a second favorite POST was refused and the row is stored once
C2_Witness ==
    /\ request.op = "favorite" /\ request.method = "POST" /\ response.status = 400
    /\ RowCount("Favorite", request.user, request.pk) = 1

\* C3: a DELETE to favorite or shopping_cart by an authenticated user for a
\* (user, recipe) with no stored row is answered with a 4xx status (never
\* 204) and no row of any table is deleted.
C3_DeleteAbsentRejected ==
    [][(/\ IsMarkerRequest(request') /\ request'.method = "DELETE"
        /\ is_authenticated(request'.user)
        /\ RowCount(ModelOf(request'.op), request'.user, request'.pk) = 0)
       => (response'.status \in 400..499 /\ db' = db)]_vars

\* C3 witness: a DELETE of an absent shopping_cart row of a stored recipe
\* was refused while another user's row for the recipe is stored
C3_Witness ==
    /\ request.op = "shopping_cart" /\ request.method = "DELETE"
    /\ response.status = 400 /\ Exists(request.pk)
    /\ \E u \in Users \ {request.user} : RowCount("ShoppingCart", u, request.pk) = 1

\* the (ingredient, amount) rows of the recipes in the cart of user
C4_CartAmounts(user, name, unit) ==
    [r \in RecipeIds |->
        [i \in Ingredients |->
            IF /\ marks["ShoppingCart"][<<user, r>>] > 0
               /\ IngredientRow[i].name = name
               /\ IngredientRow[i].measurement_unit = unit
               /\ Len(recipe_ingredient[<<r, i>>]) > 0
            THEN recipe_ingredient[<<r, i>>][1] ELSE 0]]

RECURSIVE C4_Sum(_, _, _)
C4_Sum(amounts, r, i) ==
    IF r = 0 THEN 0
    ELSE IF i = 0 THEN C4_Sum(amounts, r - 1, Len(IngredientRow))
    ELSE amounts[r][i] + C4_Sum(amounts, r, i - 1)

C4_Expected(user) ==
    {[name |-> IngredientRow[i].name,
      measurement_unit |-> IngredientRow[i].measurement_unit,
      total_amount |-> C4_Sum(C4_CartAmounts(user, IngredientRow[i].name,
                                             IngredientRow[i].measurement_unit),
                              MaxRecipes, Len(IngredientRow))] :
        i \in {j \in Ingredients : \E r \in RecipeIds :
                   /\ marks["ShoppingCart"][<<user, r>>] > 0
                   /\ Len(recipe_ingredient[<<r, j>>]) > 0}}

\* C4: download_shopping_cart for an authenticated user answers with one
\* line per (ingredient name, measurement unit) of the recipes in the user's
\* cart, carrying the sum of the amounts of that pair, in ascending order of
\* the ingredient name.
C4_ShoppingListAggregates ==
    (IsDownload(request) /\ is_authenticated(request.user)) =>
        /\ response.status = 200
        /\ RangeOf(response.lines) = C4_Expected(request.user)
        /\ Len(response.lines) = Cardinality(C4_Expected(request.user))
        /\ \A i, j \in DOMAIN response.lines :
              i < j => NameRank(response.lines[i].name) <= NameRank(response.lines[j].name)

\* C5: no state holds a Subscription row whose user is its author.
C5_NoSelfSubscription == \A u \in Users : subscription[<<u, u>>] = 0

C7_TagsUnion ==
    (/\ IsListRequest(request) /\ request.query.tags # {}
     /\ request.query.author = {} /\ request.query.is_favorited = {}
     /\ request.query.is_in_shopping_cart = {})
    => /\ response.status = 200
       /\ RangeOf(ResultIds(response)) =
              {r \in RecipeIds : Exists(r) /\ \E t \in recipe[r].tags :
                                                TagSlug[t] \in request.query.tags}
       /\ \A i, j \in DOMAIN response.results :
              i # j => response.results[i].id # response.results[j].id

\* C8: download_shopping_cart for an authenticated user with no ShoppingCart
\* row answers 200 with no ingredient line.
C8_EmptyCartNoError ==
    (/\ IsDownload(request) /\ is_authenticated(request.user)
     /\ \A r \in RecipeIds : marks["ShoppingCart"][<<request.user, r>>] = 0)
    => (response.status = 200 /\ response.lines = <<>>)

\* two requests of the race that write the same key of the same table
SameRow(p, q) ==
    /\ proc[p].pc # "idle" /\ proc[q].pc # "idle"
    /\ proc[p].user = proc[q].user /\ proc[p].target = proc[q].target
    /\ IsMarker(proc[p].view) = IsMarker(proc[q].view)
    /\ IsMarker(proc[p].view) => proc[p].view = proc[q].view

\* C9: when two POSTs for the same favorite, cart or subscription row are
\* in flight together, at most one row is stored and at most one of them
\* answers 201, also when both passed the existence check before either
\* inserted.
C9_RaceKeepsOneRow ==
    /\ \A m \in Models : \A k \in Users \X RecipeIds : marks[m][k] <= 1
    /\ \A k \in Users \X Users : subscription[k] <= 1
    /\ \A p, q \in Procs :
          (p # q /\ SameRow(p, q) /\ proc[p].status = 201) => proc[q].status # 201

\* C9 witness: both requests passed the check, one inserted and answered
\* 201, the INSERT of the other broke the constraint
C9_Witness ==
    \E p, q \in Procs :
        /\ p # q /\ SameRow(p, q)
        /\ proc[p].status = 201
        /\ proc[q].pc = "done" /\ proc[q].error = "IntegrityError"
        /\ Stored_target(proc[q].view, proc[q].target)
        /\ TableOf(proc[q].view)[<<proc[q].user, proc[q].target>>] = 1

\* C10: for an authenticated requester a list with is_favorited=1 alone
\* answers with exactly the stored recipes that have a Favorite row of the
\* requester and with is_favorited=0 with exactly those that have none; the
\* same for is_in_shopping_cart and ShoppingCart rows.
C10_MarkerFilterExact ==
    (/\ IsListRequest(request) /\ is_authenticated(request.user)
     /\ request.query.tags = {} /\ request.query.author = {})
    => /\ (request.query.is_favorited # {} /\ request.query.is_in_shopping_cart = {})
            => /\ response.status = 200
               /\ RangeOf(ResultIds(response)) =
                    {r \in RecipeIds : /\ Exists(r)
                                       /\ (marks["Favorite"][<<request.user, r>>] > 0)
                                            <=> (request.query.is_favorited = {1})}
       /\ (request.query.is_in_shopping_cart # {} /\ request.query.is_favorited = {})
            => /\ response.status = 200
               /\ RangeOf(ResultIds(response)) =
                    {r \in RecipeIds : /\ Exists(r)
                                       /\ (marks["ShoppingCart"][<<request.user, r>>] > 0)
                                            <=> (request.query.is_in_shopping_cart = {1})}

\* C11: a favorite or shopping_cart POST answered 201 (DELETE answered 204)
\* for (user, recipe) adds (removes) one row (user, recipe) of that relation
\* and changes nothing else: not the other relation, not the rows of other
\* users or recipes, not the subscriptions, recipes or RecipeIngredient rows.
C11_SingleRowEffect ==
    [][(IsMarkerRequest(request') /\ response'.status \in {201, 204})
       => LET m == ModelOf(request'.op)
              k == <<request'.user, request'.pk>>
          IN  /\ k \in Users \X RecipeIds
              /\ (request'.method = "POST") <=> (response'.status = 201)
              /\ marks'[m][k] = IF request'.method = "POST"
                                THEN marks[m][k] + 1 ELSE marks[m][k] - 1
              /\ \A n \in Models : \A j \in Users \X RecipeIds :
                    (n # m \/ j # k) => marks'[n][j] = marks[n][j]
              /\ UNCHANGED <<recipe, recipe_ingredient, subscription>>]_vars

\* C11 witness: a shopping_cart DELETE was answered 204 while the requester
\* keeps the recipe as a favorite and another user keeps it in the cart
C11_Witness ==
    /\ request.op = "shopping_cart" /\ request.method = "DELETE"
    /\ response.status = 204
    /\ RowCount("ShoppingCart", request.user, request.pk) = 0
    /\ RowCount("Favorite", request.user, request.pk) = 1
    /\ \E u \in Users \ {request.user} : RowCount("ShoppingCart", u, request.pk) = 1

IsSubscribeRequest(req) == req.op \in {"users", "api"}
SubscriptionCount(user, author) ==
    IF author \in Users THEN subscription[<<user, author>>] ELSE 0

\* C12: in both viewsets, for an authenticated user u: a subscribe POST for
\* (u, a) with the row stored is answered with a 4xx status and stores no
\* second row; with no row stored and a another existing user it stores the
\* row and answers 201; a DELETE with the row stored removes it and answers
\* 204; with no row stored it is answered with a 4xx status and removes
\* nothing.
C12_SubscribeToggle ==
    [][(IsSubscribeRequest(request') /\ is_authenticated(request'.user))
       => LET u == request'.user
              a == request'.pk
              before == SubscriptionCount(u, a)
          IN  /\ (request'.method = "POST" /\ before > 0)
                    => (response'.status \in 400..499 /\ subscription' = subscription)
              /\ (request'.method = "POST" /\ before = 0 /\ a \in Users \ {u})
                    => /\ response'.status = 201
                       /\ subscription' = [subscription EXCEPT ![<<u, a>>] = 1]
              /\ (request'.method = "DELETE" /\ before > 0)
                    => /\ response'.status = 204
                       /\ subscription' = [subscription EXCEPT ![<<u, a>>] = 0]
              /\ (request'.method = "DELETE" /\ before = 0)
                    => (response'.status \in 400..499 /\ subscription' = subscription)]_vars

\* C12 witness: a second subscribe POST of users.views for another user was
\* refused and the row is stored once
C12_Witness ==
    /\ request.op = "users" /\ request.method = "POST" /\ response.status = 400
    /\ request.pk \in Users \ {request.user}
    /\ subscription[<<request.user, request.pk>>] = 1

IsRecipeWrite(req, methods) == req.op = "recipes" /\ req.method \in methods

\* C13: a PATCH or DELETE of a stored recipe by an authenticated user who is
\* not its author is answered 403 and leaves the recipe, its tags, its
\* RecipeIngredient rows and every other row unchanged.
C13_NonAuthorRefused ==
    [][(/\ IsRecipeWrite(request', {"PATCH", "DELETE"})
        /\ is_authenticated(request'.user)
        /\ Exists(request'.pk)
        /\ recipe[request'.pk].author # request'.user)
       => (response'.status = 403 /\ db' = db)]_vars

\* the actions that need a logged-in user among those the model covers
IsProtected(req) ==
    \/ IsRecipeWrite(req, {"POST", "PATCH", "DELETE"})
    \/ IsMarkerRequest(req)
    \/ IsDownload(req)
    \/ IsSubscribeRequest(req)

\* C14: a request without credentials to a protected action (recipe create,
\* update or delete, favorite, shopping_cart, download_shopping_cart,
\* subscribe) is answered 401 and changes no stored row.
C14_AnonymousRefused ==
    [][(IsProtected(request') /\ ~is_authenticated(request'.user))
       => (response'.status = 401 /\ db' = db)]_vars

\* a Recipe row with this id is stored
IsStoredRecipe(pk) == pk \in RecipeIds /\ recipe[pk].state = "stored"

\* C15: a favorite or shopping_cart POST or DELETE by an authenticated user,
\* or a get-link request, that names a recipe id with no stored recipe is
\* answered 404 and no row is created or deleted.
C15_UnknownRecipeNotFound ==
    [][(/\ \/ IsMarkerRequest(request') /\ is_authenticated(request'.user)
           \/ request'.op = "get_link"
        /\ ~IsStoredRecipe(request'.pk))
       => (response'.status = 404 /\ db' = db)]_vars

\* C15 witness: a favorite POST for a recipe id that is not stored was
\* answered 404 while the requester holds a favorite on a stored recipe
C15_Witness ==
    /\ request.op = "favorite" /\ request.method = "POST" /\ response.status = 404
    /\ ~IsStoredRecipe(request.pk)
    /\ \E r \in RecipeIds : IsStoredRecipe(r) /\ RowCount("Favorite", request.user, r) = 1

\* C16: a subscribe POST or DELETE by an authenticated user that names a
\* user id with no stored user is answered 404 and no Subscription row is
\* created or deleted.
C16_UnknownUserNotFound ==
    [][(/\ IsSubscribeRequest(request') /\ is_authenticated(request'.user)
        /\ request'.pk \notin Users)
       => (response'.status = 404 /\ subscription' = subscription)]_vars

\* a list of ids that is empty or holds an id twice
IsEmptyOrRepeats(ids) ==
    \/ ids = <<>>
    \/ \E i, j \in DOMAIN ids : i # j /\ ids[i] = ids[j]

\* C17: a recipe create, or an update of a stored recipe by its author,
\* whose tags list or ingredients list is empty or holds the same id twice
\* is answered 400 and writes nothing: no recipe is created and the stored
\* recipe keeps its fields, tags and RecipeIngredient rows.
C17_EmptyOrRepeatedRejected ==
    [][(/\ \/ IsRecipeWrite(request', {"POST"})
           \/ /\ IsRecipeWrite(request', {"PATCH"})
              /\ IsStoredRecipe(request'.pk)
              /\ recipe[request'.pk].author = request'.user
        /\ \/ IsEmptyOrRepeats(request'.body.tags)
           \/ IsEmptyOrRepeats(ItemIds(request'.body.ingredients, TRUE)))
       => (response'.status = 400 /\ db' = db)]_vars

\* C18: a recipe list, whatever filters it carries and whoever asks, leaves
\* every stored row as it was.
C18_ListReadOnly ==
    [][IsListRequest(request') => db' = db]_vars

\* C18 witness: a list carrying all four filters was answered with a recipe
\* while favorite and cart rows are stored
C18_Witness ==
    /\ IsListRequest(request) /\ response.status = 200 /\ response.results # <<>>
    /\ request.query.author # {} /\ request.query.tags # {}
    /\ request.query.is_favorited # {} /\ request.query.is_in_shopping_cart # {}
    /\ \E k \in Users \X RecipeIds : marks["Favorite"][k] = 1 /\ marks["ShoppingCart"][k] = 1

\* name begins with the characters of prefix, letter case aside
StartsWith(name, prefix) ==
    /\ Len(prefix) <= Len(name)
    /\ \A i \in DOMAIN prefix : lower(name[i]) = lower(prefix[i])

\* C19: GET /ingredients/?name=<prefix> answers with exactly the ingredients
\* whose name starts with the given text (letter case aside): every such
\* ingredient is returned and no other.
C19_PrefixSearch ==
    (request.op = "ingredients") =>
        /\ response.status = 200
        /\ RangeOf(ResultIds(response)) =
              {i \in Ingredients :
                  StartsWith(Spelling[IngredientRow[i].name], request.query.name)}

\* the not-found outcome: a 404, or a redirect to the not-found page
IsNotFound(resp) ==
    \/ resp.status = 404
    \/ resp.status = 302 /\ resp.url = <<"not_found">>

\* C20: a request /s/{code}/ whose code decodes to the id n of a stored
\* recipe redirects to /recipes/n/; one whose code cannot be decoded, or
\* decodes to an id with no stored recipe, ends in the not-found outcome and
\* does not redirect to a recipe page.
C20_ShortLinkResolves ==
    (request.op = "short_link") =>
        LET recipe_id == decode_url(request.code)
        IN  IF recipe_id.error = "" /\ IsStoredRecipe(recipe_id.value)
            THEN response.status = 302 /\ response.url = <<"recipes", recipe_id.value>>
            ELSE IsNotFound(response)

\* an update of a stored recipe that has rows, sent by its author
IsAuthorsUpdate(p) ==
    /\ proc[p].method = "PATCH"
    /\ IsStoredRecipe(proc[p].pk)
    /\ recipe[proc[p].pk].author = proc[p].user
    /\ proc[p].before # {}

\* the update has deleted the old rows and not yet inserted the new ones,
\* and the rows the recipe has are neither the old set nor the new one
PartialSet(p) ==
    /\ proc[p].pc = "insert"
    /\ rows_of(recipe_ingredient, proc[p].pk)
           \notin {proc[p].before, rows_asked(proc[p].body.ingredients)}

\* C21: the update is not one atomic step: an update by the recipe's author
\* that the worker keeps running comes, between its DELETE and its INSERT,
\* to a state where the recipe's ingredient set is neither the set before
\* the update nor the set it asks for, and where a crash can strike and
\* leave it so (the only other way out is a crash before that).
C21_CrashLeavesPartialSet ==
    \A p \in Procs :
        (proc[p].pc = "received" /\ IsAuthorsUpdate(p))
            ~> (proc[p].pc = "crashed" \/ (PartialSet(p) /\ ENABLED worker_crash(p)))

OneRowPerPair == \A k \in DOMAIN recipe_ingredient : Len(recipe_ingredient[k]) <= 1

\* the request got to its writes: it succeeded, or a constraint stopped it
RanItsWrites(p) == proc[p].status \in {200, 201} \/ proc[p].error = "IntegrityError"

BelowMinimum(body) ==
    \/ body.cooking_time < MIN_COOKING_TIME
    \/ \E j \in DOMAIN body.ingredients : body.ingredients[j].amount < MIN_INGREDIENT_AMOUNT

\* C23: every stored recipe has cooking_time >= 1 and every RecipeIngredient
\* row amount >= 1: a create, or an update of a stored recipe by its author,
\* that carries a cooking_time or an amount below 1 is answered 400 and
\* writes nothing.
C23_MinimaEnforced ==
    [][/\ \A r \in RecipeIds :
             recipe'[r].state = "stored" => recipe'[r].cooking_time >= MIN_COOKING_TIME
       /\ \A k \in DOMAIN recipe_ingredient' :
             \A n \in DOMAIN recipe_ingredient'[k] :
                recipe_ingredient'[k][n] >= MIN_INGREDIENT_AMOUNT
       /\ (/\ \/ IsRecipeWrite(request', {"POST"})
              \/ /\ IsRecipeWrite(request', {"PATCH"})
                 /\ IsStoredRecipe(request'.pk)
                 /\ recipe[request'.pk].author = request'.user
           /\ BelowMinimum(request'.body))
          => (response'.status = 400 /\ db' = db)]_vars

\* a stored recipe passes the author and tags filters of a query
PassesOthers(r, query) ==
    /\ IsStoredRecipe(r)
    /\ query.author = {} \/ recipe[r].author \in query.author
    /\ query.tags = {} \/ \E t \in recipe[r].tags : TagSlug[t] \in query.tags

ToggleTable(req, m, sub) == IF IsMarkerRequest(req) THEN m[ModelOf(req.op)] ELSE sub
ToggleKeys(req) == IF IsMarkerRequest(req) THEN Users \X RecipeIds ELSE Users \X Users

\* C25: for favorite, shopping_cart and subscribe alike, a POST succeeds
\* (201) only when the row (u, target) is absent and stores it, a DELETE
\* succeeds (204) only when it is present and removes it, and nothing else
\* changes a row: the row exists exactly when the last request that
\* succeeded on it was a POST, the successes on one row alternate POST,
\* DELETE, POST, ..., and a successful POST followed by a successful DELETE
\* gives back the rows that were there before.
C25_ToggleAlternates ==
    [][IF (IsMarkerRequest(request') \/ IsSubscribeRequest(request'))
            /\ response'.status \in 200..299
       THEN LET k == <<request'.user, request'.pk>>
                before == ToggleTable(request', marks, subscription)
                after == ToggleTable(request', marks', subscription')
            IN  /\ k \in ToggleKeys(request')
                /\ request'.method = "POST" => (before[k] = 0 /\ after[k] = 1)
                /\ request'.method = "DELETE" => (before[k] = 1 /\ after[k] = 0)
                /\ \A j \in ToggleKeys(request') \ {k} : after[j] = before[j]
                /\ IsMarkerRequest(request')
                      => /\ subscription' = subscription
                         /\ \A m \in Models \ {ModelOf(request'.op)} : marks'[m] = marks[m]
                /\ IsSubscribeRequest(request') => marks' = marks
       ELSE marks' = marks /\ subscription' = subscription]_vars

\* C25 witness: a subscribe DELETE succeeded, so the row that an earlier
\* POST stored is gone, while the requester's favorite stays
C25_Witness ==
    /\ IsSubscribeRequest(request) /\ request.method = "DELETE"
    /\ response.status = 204
    /\ SubscriptionCount(request.user, request.pk) = 0
    /\ \E r \in RecipeIds : RowCount("Favorite", request.user, r) = 1

\* C26: the author of a recipe is the user who created it and never
\* changes: a Recipe row appears only through a recipe create and carries
\* the requester as author, and no request, an update by any user included,
\* changes the author of a stored recipe.
C26_AuthorIsCreator ==
    [][\A r \in RecipeIds :
          /\ (recipe[r].state = "stored" /\ recipe'[r].state = "stored")
                => recipe'[r].author = recipe[r].author
          /\ (recipe[r].state # "stored" /\ recipe'[r].state = "stored")
                => /\ IsRecipeWrite(request', {"POST"})
                   /\ recipe'[r].author = request'.user]_vars

\* C26 witness: an update of a stored recipe was sent by an authenticated
\* user who is not its author, and the recipe still has its author
C26_Witness ==
    /\ IsRecipeWrite(request, {"PATCH"}) /\ is_authenticated(request.user)
    /\ IsStoredRecipe(request.pk)
    /\ recipe[request.pk].author \in Users \ {request.user}

NamesUnknown(body) ==
    \/ \E j \in DOMAIN body.tags : body.tags[j] \notin Tags
    \/ \E j \in DOMAIN body.ingredients : body.ingredients[j].id \notin Ingredients

\* C28: after a recipe create answered 201 or an update answered 200 the
\* recipe has at least one tag and at least one RecipeIngredient row, all
\* of stored tags and ingredients; a create by an authenticated user, or an
\* update of a stored recipe by its author, that names a tag id or an
\* ingredient id with no stored row is answered 400 and writes nothing.
C28_TagsAndIngredientsExist ==
    [][/\ (IsRecipeWrite(request', {"POST", "PATCH"}) /\ response'.status \in {200, 201})
          => \E r \in RecipeIds :
                /\ request'.method = "PATCH" => r = request'.pk
                /\ request'.method = "POST" => recipe[r].state = "free"
                /\ recipe'[r].state = "stored"
                /\ recipe'[r].tags # {} /\ recipe'[r].tags \subseteq Tags
                /\ \E i \in Ingredients : recipe_ingredient'[<<r, i>>] # <<>>
       /\ (/\ \/ IsRecipeWrite(request', {"POST"}) /\ is_authenticated(request'.user)
              \/ /\ IsRecipeWrite(request', {"PATCH"})
                 /\ IsStoredRecipe(request'.pk)
                 /\ recipe[request'.pk].author = request'.user
           /\ NamesUnknown(request'.body))
          => (response'.status = 400 /\ db' = db)]_vars

\* C29: following the link that get-link returned for a stored recipe r,
\* that is asking for the path /s/{identifier}/ it holds, redirects to
\* /recipes/r/.
C29_LinkRoundTrip ==
    [][(/\ request.op = "get_link" /\ response.status = 200
        /\ request'.op = "short_link"
        /\ Len(response.url) = 2 /\ response.url[1] = "s"
        /\ request'.code = to_url(response.url[2]))
       => (response'.status = 302 /\ response'.url = <<"recipes", request.pk>>)]_vars

\* how often a recipe stands in the recipe list of a report
TimesListed(resp, r) == Cardinality({i \in DOMAIN resp.recipes : resp.recipes[i] = r})

\* C30: the shopping list of user u is decided by u's own ShoppingCart rows
\* and the RecipeIngredient rows of the recipes in them alone: its lines
\* are the sums over those rows, its recipe list holds each recipe of u's
\* cart exactly once and no other recipe, whatever rows other users have.
C30_OwnCartOnly ==
    (IsDownload(request) /\ is_authenticated(request.user)) =>
        /\ response.status = 200
        /\ RangeOf(response.lines) = C4_Expected(request.user)
        /\ \A r \in RecipeIds :
              TimesListed(response, r) =
                  IF marks["ShoppingCart"][<<request.user, r>>] > 0 THEN 1 ELSE 0
====
